---- MODULE Spec2Model ----
(***************************************************************************)
(* Model of StashRESTClient (pkg/plugin/examples/python/stash_rest.py):    *)
(* the constructor, the generic _request operation, the five verb methods  *)
(* and the convenience methods, together with the HTTP exchange each call  *)
(* performs.  Python values are tagged records; strings are built by       *)
(* concatenation exactly as the f-strings of the source build them.        *)
(***************************************************************************)
EXTENDS Integers, Sequences, FiniteSets, TLC

VARIABLES
  conn,      \* the connection info handed to the constructor
  phase,     \* "new" (not constructed), "ready" (client exists), "failed"
  client,    \* the StashRESTClient instance (NoClient while there is none)
  call,      \* the current or last call: operation name and arguments
  pc,        \* "idle" (no call yet), "calling" (a call is pending), "done"
  wire,      \* the HTTP requests issued by the last call, in order
  response,  \* the server's response to the last request
  result,    \* how the last call ended: returned value or raised error
  decoded    \* number of response.json() calls the last call made

vars == <<conn, phase, client, call, pc, wire, response, result, decoded>>

\* ---------------------------------------------------------------- bounds
MaxTags == 2      \* tags in one /tags/query response

\* ---------------------------------------------------------- Python values
None == [kind |-> "None"]
Str(s) == [kind |-> "str", s |-> s]
Num(n) == [kind |-> "int", n |-> n]
Dict(f) == [kind |-> "dict", items |-> f]
List(q) == [kind |-> "list", elems |-> q]
NoItems == [k \in {} |-> None]
EmptyDict == Dict(NoItems)

\* Python truth value testing (`if x:`).
Truthy(v) ==
  CASE v.kind = "None" -> FALSE
    [] v.kind = "str" -> v.s # ""
    [] v.kind = "int" -> v.n # 0
    [] v.kind = "dict" -> DOMAIN v.items # {}
    [] v.kind = "list" -> Len(v.elems) > 0

\* dict.get(key, default)
dict_get(d, key, default) ==
  IF key \in DOMAIN d.items THEN d.items[key] ELSE default

\* str(v), as an f-string replacement field renders it.
Format(v) ==
  CASE v.kind = "str" -> v.s
    [] v.kind = "int" -> ToString(v.n)
    [] v.kind = "None" -> "None"

\* ------------------------------------------------------------------ JSON
\* Keys are written in this order: request bodies in the order the source
\* inserts their keys, server documents in the order the server writes them.
KeyOrder ==
  <<"filter", "scene_filter", "performer_filter", "paths", "q", "per_page",
    "rating100", "count", "tags", "id", "name">>

RECURSIVE Encode(_, _, _)
RECURSIVE EncodeItems(_, _, _, _)
RECURSIVE EncodeElems(_, _, _, _)

\* The members of dict d whose key is KeyOrder[i] or later.
EncodeItems(d, i, itemSep, keySep) ==
  IF i > Len(KeyOrder) THEN ""
  ELSE LET k == KeyOrder[i]
           rest == EncodeItems(d, i + 1, itemSep, keySep)
       IN IF k \notin DOMAIN d.items THEN rest
          ELSE "\"" \o k \o "\"" \o keySep \o Encode(d.items[k], itemSep, keySep)
               \o (IF \E j \in (i + 1)..Len(KeyOrder) : KeyOrder[j] \in DOMAIN d.items
                   THEN itemSep ELSE "")
               \o rest

\* The elements of sequence q from index i on.
EncodeElems(q, i, itemSep, keySep) ==
  IF i > Len(q) THEN ""
  ELSE Encode(q[i], itemSep, keySep)
       \o (IF i < Len(q) THEN itemSep ELSE "")
       \o EncodeElems(q, i + 1, itemSep, keySep)

\* JSON text of a value with the given separators.
Encode(v, itemSep, keySep) ==
  CASE v.kind = "None" -> "null"
    [] v.kind = "str" -> "\"" \o v.s \o "\""
    [] v.kind = "int" -> ToString(v.n)
    [] v.kind = "dict" -> "{" \o EncodeItems(v, 1, itemSep, keySep) \o "}"
    [] v.kind = "list" -> "[" \o EncodeElems(v.elems, 1, itemSep, keySep) \o "]"

\* json.dumps as the HTTP library applies it to the `json=` argument.
json_dumps(v) == Encode(v, ", ", ": ")

\* The compact encoding a server writes.
ServerJson(v) == Encode(v, ",", ":")

\* --------------------------------------------------------- server answers
Tag(id, name) == Dict([id |-> Str(id), name |-> Str(name)])

\* Tags a server may hold: two named "Foo" with different ids, and two whose
\* names differ from "Foo" by case or by a suffix.
ServerTags == {Tag("1", "Foo"), Tag("2", "Foo"), Tag("3", "foo"), Tag("4", "Foobar")}

\* Sequences of at most n elements of S.
SeqsUpTo(S, n) == UNION {[1..k -> S] : k \in 0..n}

\* Bodies of a /tags/query answer.
TagQueryDocs ==
  {Dict([count |-> Num(Len(q)), tags |-> List(q)]) : q \in SeqsUpTo(ServerTags, MaxTags)}

\* Other JSON documents a server may answer with.
PlainDocs ==
  {None, EmptyDict, Dict([tags |-> None]), List(<<>>), List(<<Str("Foo")>>),
   Tag("1", "Foo")}

JsonDocs == TagQueryDocs \cup PlainDocs

\* Body texts that are not JSON.
NonJsonTexts == {"tag not found"}

Statuses == {200, 204, 400, 500}

Response(status, text) == [status_code |-> status, text |-> text]

\* What the server may answer to a /tags/query request.
TagQueryResponses ==
  {Response(s, t) : s \in Statuses,
                    t \in {""} \cup NonJsonTexts \cup {ServerJson(d) : d \in JsonDocs}}

\* What the server may answer to any other request.
PlainResponses ==
  {Response(s, t) : s \in Statuses,
                    t \in {""} \cup NonJsonTexts \cup {ServerJson(d) : d \in {None, Tag("1", "Foo")}}}

\* response.json(): the document the body text encodes, or a decode error.
JsonTable == {<<ServerJson(d), d>> : d \in JsonDocs}
IsJson(text) == \E e \in JsonTable : e[1] = text
response_json(text) == (CHOOSE e \in JsonTable : e[1] = text)[2]

\* ---------------------------------------------------------- call outcomes
Return(v) == [kind |-> "return", value |-> v]
Raise(e) == [kind |-> "raise", value |-> e]

KeyError(key) == [kind |-> "KeyError", key |-> key]
AttributeError(attr) == [kind |-> "AttributeError", attr |-> attr]
JSONDecodeError == [kind |-> "JSONDecodeError"]
Exception(message) == [kind |-> "Exception", message |-> message]

\* ------------------------------------------------------- connection infos
\* A dict holding the given value under the given key, or nothing for Absent.
Absent == [kind |-> "absent"]
Entry(key, v) == IF v = Absent THEN NoItems ELSE [k \in {key} |-> v]

\* The union of two dicts' items with disjoint keys.
Merge(f, g) == [k \in DOMAIN f \cup DOMAIN g |-> IF k \in DOMAIN f THEN f[k] ELSE g[k]]

Ports == {Absent, Num(9999)}
Schemes == {Absent, Str("http"), Str("https")}
Hosts == {Absent, Str(""), Str("localhost"), Str("stash.local")}
SessionCookies ==
  {Absent, None, EmptyDict,
   Dict([Name |-> Str("session")]),
   Dict([Name |-> Str("session"), Value |-> Str("")]),
   Dict([Name |-> Str("session"), Value |-> Str("abc")])}

ConnInfos ==
  {Dict(Merge(Merge(Entry("Port", p), Entry("Scheme", s)),
              Merge(Entry("Host", h), Entry("SessionCookie", c)))) :
     p \in Ports, s \in Schemes, h \in Hosts, c \in SessionCookies}

\* ------------------------------------------------------------ constructor
NoClient == [kind |-> "NoClient"]

DefaultHeaders ==
  [k \in {"Accept-Encoding", "Content-Type", "Accept", "Connection"} |->
     CASE k = "Accept-Encoding" -> "gzip, deflate, br"
       [] k = "Content-Type" -> "application/json"
       [] k = "Accept" -> "application/json"
       [] k = "Connection" -> "keep-alive"]

\* Variant of __init__: reads Port and Scheme with dict.get, so a missing
\* field does not raise.
__init___lenient(c) ==
  LET port == dict_get(c, "Port", None)
      scheme == dict_get(c, "Scheme", None)
      host == dict_get(c, "Host", Str("localhost"))
      cookie == dict_get(c, "SessionCookie", None)
  IN Return([kind |-> "StashRESTClient",
             port |-> port,
             base_url |-> Format(scheme) \o "://" \o Format(host) \o ":"
                          \o Format(port) \o "/api/v1",
             headers |-> DefaultHeaders,
             cookies |-> IF Truthy(cookie)
                         THEN [k \in {"session"} |-> dict_get(cookie, "Value", Str(""))]
                         ELSE NoItems])

\* Variant of __init__: the host is always "localhost".
__init___fixed_host(c) ==
  IF "Port" \notin DOMAIN c.items THEN Raise(KeyError("Port"))
  ELSE IF "Scheme" \notin DOMAIN c.items THEN Raise(KeyError("Scheme"))
  ELSE
    LET port == c.items["Port"]
        scheme == c.items["Scheme"]
        cookie == dict_get(c, "SessionCookie", None)
    IN Return([kind |-> "StashRESTClient",
               port |-> port,
               base_url |-> Format(scheme) \o "://localhost:" \o Format(port)
                            \o "/api/v1",
               headers |-> DefaultHeaders,
               cookies |-> IF Truthy(cookie)
                           THEN [k \in {"session"} |-> dict_get(cookie, "Value", Str(""))]
                           ELSE NoItems])

\* Variant of __init__: the session entry is stored only for a non-empty value.
__init___skip_empty_value(c) ==
  IF "Port" \notin DOMAIN c.items THEN Raise(KeyError("Port"))
  ELSE IF "Scheme" \notin DOMAIN c.items THEN Raise(KeyError("Scheme"))
  ELSE
    LET port == c.items["Port"]
        scheme == c.items["Scheme"]
        host == dict_get(c, "Host", Str("localhost"))
        cookie == dict_get(c, "SessionCookie", None)
    IN Return([kind |-> "StashRESTClient",
               port |-> port,
               base_url |-> Format(scheme) \o "://" \o Format(host) \o ":"
                            \o Format(port) \o "/api/v1",
               headers |-> DefaultHeaders,
               cookies |-> IF Truthy(cookie) /\ Truthy(dict_get(cookie, "Value", Str("")))
                           THEN [k \in {"session"} |-> dict_get(cookie, "Value", Str(""))]
                           ELSE NoItems])

\* StashRESTClient.__init__: the instance, or the error subscripting raises.
__init__(c) ==
  IF "Port" \notin DOMAIN c.items THEN Raise(KeyError("Port"))
  ELSE IF "Scheme" \notin DOMAIN c.items THEN Raise(KeyError("Scheme"))
  ELSE
    LET port == c.items["Port"]
        scheme == c.items["Scheme"]
        host == dict_get(c, "Host", Str("localhost"))
        cookie == dict_get(c, "SessionCookie", None)
    IN Return([kind |-> "StashRESTClient",
               port |-> port,
               base_url |-> Format(scheme) \o "://" \o Format(host) \o ":"
                            \o Format(port) \o "/api/v1",
               headers |-> DefaultHeaders,
               cookies |-> IF Truthy(cookie)
                           THEN [k \in {"session"} |-> dict_get(cookie, "Value", Str(""))]
                           ELSE NoItems])

\* ---------------------------------------------------------------- _request
\* requests.request: the HTTP request put on the wire.  json=None sends no
\* body; any other value is sent as its JSON text.
requests_request(method, url, json, headers, cookies) ==
  [method |-> method, url |-> url, headers |-> headers, cookies |-> cookies,
   json |-> json, body |-> IF json = None THEN None ELSE Str(json_dumps(json))]

\* How a method ends: the instance afterwards, the requests it issued, the
\* number of response.json() calls, and the value returned or error raised.
Outcome(self, reqs, parsed, end) ==
  [self |-> self, wire |-> reqs, decoded |-> parsed, kind |-> end.kind,
   value |-> end.value]

\* The message of the error _request raises.
ErrorMessage(resp, method, path) ==
  "REST API error " \o ToString(resp.status_code) \o ": " \o resp.text
  \o ". Method: " \o method \o ", Path: " \o path

\* Variant of _request: only an empty body yields None; status 204 is not
\* examined.
_request_no_204(self, method, path, json_body, resp) ==
  LET url == self.base_url \o path
      req == requests_request(method, url, json_body, self.headers, self.cookies)
  IN IF resp.status_code >= 400
     THEN Outcome(self, <<req>>, 0, Raise(Exception(ErrorMessage(resp, method, path))))
     ELSE IF resp.text = ""
     THEN Outcome(self, <<req>>, 0, Return(None))
     ELSE IF IsJson(resp.text)
     THEN Outcome(self, <<req>>, 1, Return(response_json(resp.text)))
     ELSE Outcome(self, <<req>>, 1, Raise(JSONDecodeError))

\* Variant of _request: the body is decoded before the status is examined.
_request_decode_first(self, method, path, json_body, resp) ==
  LET url == self.base_url \o path
      req == requests_request(method, url, json_body, self.headers, self.cookies)
  IN IF resp.text # "" /\ ~IsJson(resp.text)
     THEN Outcome(self, <<req>>, 1, Raise(JSONDecodeError))
     ELSE IF resp.status_code >= 400
     THEN Outcome(self, <<req>>, IF resp.text = "" THEN 0 ELSE 1,
                  Raise(Exception(ErrorMessage(resp, method, path))))
     ELSE IF resp.status_code = 204 \/ resp.text = ""
     THEN Outcome(self, <<req>>, IF resp.text = "" THEN 0 ELSE 1, Return(None))
     ELSE Outcome(self, <<req>>, 1, Return(response_json(resp.text)))

\* Variant of _request: the 204 / empty-body test comes before the status
\* test.
_request_empty_first(self, method, path, json_body, resp) ==
  LET url == self.base_url \o path
      req == requests_request(method, url, json_body, self.headers, self.cookies)
  IN IF resp.status_code = 204 \/ resp.text = ""
     THEN Outcome(self, <<req>>, 0, Return(None))
     ELSE IF resp.status_code >= 400
     THEN Outcome(self, <<req>>, 0, Raise(Exception(ErrorMessage(resp, method, path))))
     ELSE IF IsJson(resp.text)
     THEN Outcome(self, <<req>>, 1, Return(response_json(resp.text)))
     ELSE Outcome(self, <<req>>, 1, Raise(JSONDecodeError))

\* Variant of _request: the path is appended to the stored base URL in place.
_request_grows_base_url(self, method, path, json_body, resp) ==
  LET url == self.base_url \o path
      after == [self EXCEPT !.base_url = url]
      req == requests_request(method, url, json_body, self.headers, self.cookies)
  IN IF resp.status_code >= 400
     THEN Outcome(after, <<req>>, 0, Raise(Exception(ErrorMessage(resp, method, path))))
     ELSE IF resp.status_code = 204 \/ resp.text = ""
     THEN Outcome(after, <<req>>, 0, Return(None))
     ELSE IF IsJson(resp.text)
     THEN Outcome(after, <<req>>, 1, Return(response_json(resp.text)))
     ELSE Outcome(after, <<req>>, 1, Raise(JSONDecodeError))

\* StashRESTClient._request, given the server's answer resp.
_request(self, method, path, json_body, resp) ==
  LET url == self.base_url \o path
      req == requests_request(method, url, json_body, self.headers, self.cookies)
  IN IF resp.status_code >= 400
     THEN Outcome(self, <<req>>, 0, Raise(Exception(ErrorMessage(resp, method, path))))
     ELSE IF resp.status_code = 204 \/ resp.text = ""
     THEN Outcome(self, <<req>>, 0, Return(None))
     ELSE IF IsJson(resp.text)
     THEN Outcome(self, <<req>>, 1, Return(response_json(resp.text)))
     ELSE Outcome(self, <<req>>, 1, Raise(JSONDecodeError))

\* ------------------------------------------------------------ verb methods
get(self, path, resp) == _request(self, "GET", path, None, resp)
post(self, path, body, resp) == _request(self, "POST", path, body, resp)
put(self, path, body, resp) == _request(self, "PUT", path, body, resp)
patch(self, path, body, resp) == _request(self, "PATCH", path, body, resp)
\* Variant of delete: the body is not passed on.
delete_without_body(self, path, body, resp) == _request(self, "DELETE", path, None, resp)

delete(self, path, body, resp) == _request(self, "DELETE", path, body, resp)

\* ----------------------------------------------------- convenience methods
\* d[key] = v
SetItem(f, key, v) == [k \in DOMAIN f \cup {key} |-> IF k = key THEN v ELSE f[k]]

\* str.lower() on the tag names of the model.
Lower(s) == CASE s = "Foo" -> "foo" [] s = "Foobar" -> "foobar" [] OTHER -> s

\* Variant of NameMatches: the comparison ignores case.
NameMatchesIgnoreCase(tag, name) == Lower(tag.items["name"].s) = Lower(name)

\* tag["name"] == name
NameMatches(tag, name) == tag.items["name"] = Str(name)

\* The for loop of find_tag_by_name from index i on.
RECURSIVE ScanTags(_, _, _)
ScanTags(tags, i, name) ==
  IF i > Len(tags) THEN None
  ELSE IF NameMatches(tags[i], name) THEN tags[i].items["id"]
  ELSE ScanTags(tags, i + 1, name)

find_tag_by_name(self, name, resp) ==
  LET r == post(self, "/tags/query",
                Dict([filter |-> Dict([q |-> Str(name), per_page |-> Num(-1)])]), resp)
      found(v) == [r EXCEPT !.value = v]
      failed(e) == [r EXCEPT !.kind = "raise", !.value = e]
  IN IF r.kind = "raise" THEN r
     ELSE IF ~Truthy(r.value) THEN found(None)
     ELSE IF r.value.kind # "dict" THEN failed(AttributeError("get"))
     ELSE IF ~Truthy(dict_get(r.value, "tags", None)) THEN found(None)
     ELSE found(ScanTags(r.value.items["tags"].elems, 1, name))

create_tag(self, name, resp) == post(self, "/tags", Dict([name |-> Str(name)]), resp)

\* Variant of find_scenes: both keys are always set.
find_scenes_all_keys(self, filter_params, scene_filter, resp) ==
  post(self, "/scenes/query",
       Dict([filter |-> filter_params, scene_filter |-> scene_filter]), resp)

find_scenes(self, filter_params, scene_filter, resp) ==
  LET body0 == NoItems
      body1 == IF Truthy(filter_params) THEN SetItem(body0, "filter", filter_params)
               ELSE body0
      body2 == IF Truthy(scene_filter) THEN SetItem(body1, "scene_filter", scene_filter)
               ELSE body1
  IN post(self, "/scenes/query", Dict(body2), resp)

find_performers(self, filter_params, performer_filter, resp) ==
  LET body0 == NoItems
      body1 == IF Truthy(filter_params) THEN SetItem(body0, "filter", filter_params)
               ELSE body0
      body2 == IF Truthy(performer_filter)
               THEN SetItem(body1, "performer_filter", performer_filter)
               ELSE body1
  IN post(self, "/performers/query", Dict(body2), resp)

metadata_scan(self, paths, resp) ==
  LET body0 == NoItems
      body1 == IF Truthy(paths) THEN SetItem(body0, "paths", paths) ELSE body0
  IN post(self, "/metadata/scan", Dict(body1), resp)

\* ----------------------------------------------------------- call inputs
Paths == {"/tags", "/tags/123"}
Bodies == {None, EmptyDict, Dict([name |-> Str("Foo")])}
QueryNames == {"Foo", "foo"}
FilterArgs == {None, EmptyDict, Dict([per_page |-> Num(10)])}
ObjectFilterArgs == {None, EmptyDict, Dict([rating100 |-> Num(80)])}
PathsArgs == {None, List(<<>>), List(<<Str("/media")>>)}

NoCall == [op |-> "none", args |-> <<>>]
NoResponse == Response(0, "")

\* The method the pending call names, run against the server's answer.
Run(self, c, resp) ==
  CASE c.op = "get" -> get(self, c.args[1], resp)
    [] c.op = "post" -> post(self, c.args[1], c.args[2], resp)
    [] c.op = "put" -> put(self, c.args[1], c.args[2], resp)
    [] c.op = "patch" -> patch(self, c.args[1], c.args[2], resp)
    [] c.op = "delete" -> delete(self, c.args[1], c.args[2], resp)
    [] c.op = "find_tag_by_name" -> find_tag_by_name(self, c.args[1], resp)
    [] c.op = "create_tag" -> create_tag(self, c.args[1], resp)
    [] c.op = "find_scenes" -> find_scenes(self, c.args[1], c.args[2], resp)
    [] c.op = "find_performers" -> find_performers(self, c.args[1], c.args[2], resp)
    [] c.op = "metadata_scan" -> metadata_scan(self, c.args[1], resp)

\* What the server may answer to the pending call's request.
ResponsesFor(c) ==
  IF c.op = "find_tag_by_name" THEN TagQueryResponses ELSE PlainResponses

\* ---------------------------------------------------------- state machine
Init ==
  /\ conn \in ConnInfos
  /\ phase = "new"
  /\ client = NoClient
  /\ call = NoCall
  /\ pc = "idle"
  /\ wire = <<>>
  /\ response = NoResponse
  /\ result = Return(None)
  /\ decoded = 0

\* client = StashRESTClient(conn)
Construct ==
  /\ phase = "new"
  /\ LET r == __init__(conn)
     IN /\ phase' = IF r.kind = "return" THEN "ready" ELSE "failed"
        /\ client' = IF r.kind = "return" THEN r.value ELSE NoClient
        /\ result' = IF r.kind = "return" THEN Return(None) ELSE r
  /\ call' = [op |-> "__init__", args |-> <<conn>>]
  /\ UNCHANGED <<conn, pc, wire, response, decoded>>

\* A method can be called once the client exists; calls are synchronous, so
\* none starts while another is pending.
CanInvoke == phase = "ready" /\ pc # "calling"

\* The caller invokes a method of the client with the given arguments.
Invoke(op, args) ==
  /\ call' = [op |-> op, args |-> args]
  /\ pc' = "calling"
  /\ wire' = <<>>
  /\ response' = NoResponse
  /\ result' = Return(None)
  /\ decoded' = 0
  /\ UNCHANGED <<conn, phase, client>>

Get ==
  /\ CanInvoke
  /\ \E path \in Paths : Invoke("get", <<path>>)

Post ==
  /\ CanInvoke
  /\ \E path \in Paths, body \in Bodies : Invoke("post", <<path, body>>)

Put ==
  /\ CanInvoke
  /\ \E path \in Paths, body \in Bodies : Invoke("put", <<path, body>>)

Patch ==
  /\ CanInvoke
  /\ \E path \in Paths, body \in Bodies : Invoke("patch", <<path, body>>)

Delete ==
  /\ CanInvoke
  /\ \E path \in Paths, body \in Bodies : Invoke("delete", <<path, body>>)

FindTagByName ==
  /\ CanInvoke
  /\ \E name \in QueryNames : Invoke("find_tag_by_name", <<name>>)

CreateTag ==
  /\ CanInvoke
  /\ \E name \in QueryNames : Invoke("create_tag", <<name>>)

FindScenes ==
  /\ CanInvoke
  /\ \E f \in FilterArgs, sf \in ObjectFilterArgs : Invoke("find_scenes", <<f, sf>>)

FindPerformers ==
  /\ CanInvoke
  /\ \E f \in FilterArgs, pf \in ObjectFilterArgs : Invoke("find_performers", <<f, pf>>)

MetadataScan ==
  /\ CanInvoke
  /\ \E paths \in PathsArgs : Invoke("metadata_scan", <<paths>>)

\* The pending call runs to its end: it issues its request, the server
\* answers, and the method returns or raises.
Complete ==
  /\ pc = "calling"
  /\ \E resp \in ResponsesFor(call) :
       LET out == Run(client, call, resp)
       IN /\ client' = out.self
          /\ wire' = out.wire
          /\ response' = resp
          /\ result' = [kind |-> out.kind, value |-> out.value]
          /\ decoded' = out.decoded
  /\ pc' = "done"
  /\ UNCHANGED <<conn, phase, call>>

Next ==
  \/ Construct
  \/ Get
  \/ Post
  \/ Put
  \/ Patch
  \/ Delete
  \/ FindTagByName
  \/ CreateTag
  \/ FindScenes
  \/ FindPerformers
  \/ MetadataScan
  \/ Complete

Spec == Init /\ [][Next]_vars

\* ================================================================ claims
VerbOps == {"get", "post", "put", "patch", "delete"}
Done == pc = "done"
Status == response.status_code

\* The HTTP method and path a call is documented to use.
MethodOf(c) ==
  CASE c.op = "get" -> "GET"
    [] c.op = "put" -> "PUT"
    [] c.op = "patch" -> "PATCH"
    [] c.op = "delete" -> "DELETE"
    [] OTHER -> "POST"

PathOf(c) ==
  CASE c.op \in VerbOps -> c.args[1]
    [] c.op = "find_tag_by_name" -> "/tags/query"
    [] c.op = "create_tag" -> "/tags"
    [] c.op = "find_scenes" -> "/scenes/query"
    [] c.op = "find_performers" -> "/performers/query"
    [] c.op = "metadata_scan" -> "/metadata/scan"

HasKey(c, key) == key \in DOMAIN c.items

\* ------------------------------------------------------------------- C1
\* C1 as stated: whenever a verb method's response has status 204 or an
\* empty body, the call returns null.
C1_AsStated ==
  (Done /\ call.op \in VerbOps /\ (Status = 204 \/ response.text = ""))
    => result = Return(None)

\* C1 (amended): whenever a verb method's response has a status below 400
\* and has status 204 or an empty body, the call returns null without
\* decoding the body; with a status of 400 or more the call raises even when
\* the body is empty.
C1_NullOnNoContent ==
  (Done /\ call.op \in VerbOps)
    => /\ (Status < 400 /\ (Status = 204 \/ response.text = ""))
            => (result = Return(None) /\ decoded = 0)
       /\ (Status >= 400 /\ response.text = "") => result.kind = "raise"

C1_Witness ==
  /\ Done /\ call.op = "delete" /\ Status = 204
  /\ response.text = "{\"id\":\"1\",\"name\":\"Foo\"}"
  /\ result = Return(None)

\* ------------------------------------------------------------------- C2
\* C2: a response with status >= 400 makes the call raise an error whose
\* message holds the status code, the raw body text, the HTTP method and the
\* path; the body is not decoded and exactly one request was issued.
C2_ErrorCarriesResponse ==
  (Done /\ Status >= 400)
    => /\ result.kind = "raise"
       /\ result.value.kind = "Exception"
       /\ result.value.message =
            "REST API error " \o ToString(Status) \o ": " \o response.text
            \o ". Method: " \o MethodOf(call) \o ", Path: " \o PathOf(call)
       /\ decoded = 0
       /\ Len(wire) = 1

C2_Witness ==
  /\ Done /\ call.op = "put" /\ call.args[1] = "/tags/123"
  /\ result = Raise(Exception(
       "REST API error 500: tag not found. Method: PUT, Path: /tags/123"))
  /\ Len(wire) = 1

\* ------------------------------------------------------------------- C3
\* The session cookie of the connection info, and whether its value is
\* present and non-empty.
SessionCookieOf(c) == IF HasKey(c, "SessionCookie") THEN c.items["SessionCookie"] ELSE None
HasSessionValue(c) ==
  LET ck == SessionCookieOf(c)
  IN ck.kind = "dict" /\ HasKey(ck, "Value") /\ ck.items["Value"] # Str("")

\* C3 as stated: the cookie mapping has a session entry exactly when the
\* session cookie's value is present and non-empty.
C3_AsStated ==
  phase = "ready" => (("session" \in DOMAIN client.cookies) <=> HasSessionValue(conn))

\* C3 (amended): the cookie mapping has a session entry exactly when the
\* connection info has a session cookie that is a non-empty object; the entry
\* is the cookie's value, or the empty string when the cookie has no value;
\* every request carries exactly that cookie mapping.
C3_SessionCookie ==
  LET ck == SessionCookieOf(conn)
      present == ck.kind = "dict" /\ DOMAIN ck.items # {}
      expected == IF present
                  THEN [k \in {"session"} |->
                          IF HasKey(ck, "Value") THEN ck.items["Value"] ELSE Str("")]
                  ELSE NoItems
  IN phase = "ready"
       => /\ client.cookies = expected
          /\ Done => \A i \in 1..Len(wire) : wire[i].cookies = expected

C3_Witness ==
  /\ Done
  /\ HasKey(conn, "SessionCookie")
  /\ conn.items["SessionCookie"] = Dict([Name |-> Str("session"), Value |-> Str("")])
  /\ Len(wire) = 1
  /\ wire[1].cookies = [k \in {"session"} |-> Str("")]

\* ------------------------------------------------------------------- C4
\* The first tag of the sequence whose name is exactly the given one.
FirstExact(tags, name) ==
  LET hits == {i \in 1..Len(tags) : tags[i].items["name"].s = name}
  IN IF hits = {} THEN None
     ELSE tags[CHOOSE i \in hits : \A j \in hits : i <= j].items["id"]

\* C4: find_tag_by_name issues POST /tags/query with the filter body, returns
\* the id of the first tag whose name equals the given name exactly, and
\* returns null for a null response, a response without tags, an empty tags
\* sequence or only non-exact matches.
C4_FindTagByName ==
  (Done /\ call.op = "find_tag_by_name")
    => LET name == call.args[1]
           answered == Status < 400 /\ Status # 204 /\ response.text # ""
       IN /\ Len(wire) = 1
          /\ wire[1].method = "POST"
          /\ wire[1].url = client.base_url \o "/tags/query"
          /\ wire[1].body =
               Str("{\"filter\": {\"q\": \"" \o name \o "\", \"per_page\": -1}}")
          /\ \A q \in SeqsUpTo(ServerTags, MaxTags) :
               (answered /\ response.text = ServerJson(Dict([count |-> Num(Len(q)), tags |-> List(q)])))
                 => result = Return(FirstExact(q, name))
          /\ (answered /\ response.text \in {"null", "{}", "{\"tags\":null}"})
               => result = Return(None)

C4_Witness ==
  /\ Done /\ call.op = "find_tag_by_name" /\ call.args[1] = "Foo"
  /\ Status = 200
  /\ response.text =
       "{\"count\":2,\"tags\":[{\"id\":\"4\",\"name\":\"Foobar\"},{\"id\":\"2\",\"name\":\"Foo\"}]}"
  /\ result = Return(Str("2"))

\* ------------------------------------------------------------------- C5
\* An argument that was supplied, non-null and non-empty.
Supplied(a) == a # None /\ a # EmptyDict /\ a # List(<<>>)

\* The optional keys of each query method, in argument order.
OptionalKeys(op) ==
  CASE op = "find_scenes" -> <<"filter", "scene_filter">>
    [] op = "find_performers" -> <<"filter", "performer_filter">>
    [] op = "metadata_scan" -> <<"paths">>

\* C5: the POST body of find_scenes, find_performers and metadata_scan holds
\* an optional key exactly when its argument is supplied, non-null and
\* non-empty, mapped to the argument unchanged; no key maps to null, and a
\* call without arguments sends {}.
C5_OptionalKeys ==
  (Done /\ call.op \in {"find_scenes", "find_performers", "metadata_scan"})
    => LET keys == OptionalKeys(call.op)
           sentJson == wire[1].json
       IN /\ Len(wire) = 1
          /\ wire[1].method = "POST"
          /\ sentJson.kind = "dict"
          /\ DOMAIN sentJson.items = {keys[i] : i \in {j \in 1..Len(keys) : Supplied(call.args[j])}}
          /\ \A i \in 1..Len(keys) :
               Supplied(call.args[i]) => sentJson.items[keys[i]] = call.args[i]
          /\ \A k \in DOMAIN sentJson.items : sentJson.items[k] # None
          /\ (\A i \in 1..Len(keys) : call.args[i] = None) => wire[1].body = Str("{}")

C5_Witness ==
  /\ Done /\ call.op = "find_scenes"
  /\ call.args = <<Dict([per_page |-> Num(10)]), None>>
  /\ wire[1].body = Str("{\"filter\": {\"per_page\": 10}}")

\* ------------------------------------------------------------------- C6
\* The base URL the connection info determines.
BaseUrlOf(c) ==
  c.items["Scheme"].s \o "://"
  \o (IF HasKey(c, "Host") THEN c.items["Host"].s ELSE "localhost")
  \o ":" \o ToString(c.items["Port"].n) \o "/api/v1"

\* C6: once constructed, the client's base URL, headers and cookies never
\* change, whatever calls are made and however they end, and the method,
\* URL, headers and cookies of every request are determined by the
\* connection info and the call alone.
C6_ClientNeverMutated ==
  /\ [][phase = "ready" => client' = client]_vars
  /\ [](Done => \A i \in 1..Len(wire) :
                  /\ wire[i].method = MethodOf(call)
                  /\ wire[i].url = BaseUrlOf(conn) \o PathOf(call)
                  /\ wire[i].headers = DefaultHeaders
                  /\ wire[i].cookies = client.cookies)

C6_Witness ==
  /\ Done /\ result.kind = "raise"
  /\ client.base_url = "https://stash.local:9999/api/v1"
  /\ client.headers = DefaultHeaders
  /\ client.cookies = [k \in {"session"} |-> Str("abc")]

\* ------------------------------------------------------------------- C7
\* C7: construction from connection info without port or scheme fails with
\* the error for the first missing field, yields no client and issues no
\* request; with both present it succeeds, the host defaulting to localhost.
C7_MissingField ==
  phase # "new"
    => IF ~HasKey(conn, "Port") \/ ~HasKey(conn, "Scheme")
       THEN /\ phase = "failed"
            /\ client = NoClient
            /\ result = Raise(KeyError(IF HasKey(conn, "Port") THEN "Scheme" ELSE "Port"))
            /\ wire = <<>>
            /\ pc = "idle"
       ELSE /\ phase = "ready"
            /\ client # NoClient
            /\ ~HasKey(conn, "Host")
                 => client.base_url =
                      conn.items["Scheme"].s \o "://localhost:9999/api/v1"

C7_Witness ==
  /\ phase = "failed"
  /\ HasKey(conn, "Port") /\ ~HasKey(conn, "Scheme")
  /\ result = Raise(KeyError("Scheme"))

\* ------------------------------------------------------------------- C8
\* C8: the base URL is scheme://host:port/api/v1 with host "localhost" when
\* none is given, every request goes to the base URL followed by the path,
\* and get("/tags") on http, localhost, 9999 issues
\* GET http://localhost:9999/api/v1/tags and returns the decoded body on 200.
C8_BaseUrl ==
  phase = "ready"
    => /\ client.base_url = BaseUrlOf(conn)
       /\ Done => \A i \in 1..Len(wire) : wire[i].url = BaseUrlOf(conn) \o PathOf(call)
       /\ (/\ Done
           /\ conn.items["Scheme"] = Str("http")
           /\ HasKey(conn, "Host") /\ conn.items["Host"] = Str("localhost")
           /\ call = [op |-> "get", args |-> <<"/tags">>])
            => /\ wire[1].method = "GET"
               /\ wire[1].url = "http://localhost:9999/api/v1/tags"
               /\ (Status = 200 /\ response.text = "{\"id\":\"1\",\"name\":\"Foo\"}")
                    => result = Return(Dict([id |-> Str("1"), name |-> Str("Foo")]))

C8_Witness ==
  /\ Done
  /\ HasKey(conn, "Host") /\ conn.items["Host"] = Str("localhost")
  /\ call = [op |-> "get", args |-> <<"/tags">>]
  /\ wire[1].url = "http://localhost:9999/api/v1/tags"
  /\ Status = 200
  /\ result = Return(Dict([id |-> Str("1"), name |-> Str("Foo")]))

\* ------------------------------------------------------------------- C9
\* C9: a verb method call issues exactly one request, with its own HTTP
\* method and the stored headers and cookies; get sends no body, the others
\* send the given body when one is supplied and none otherwise.
C9_VerbMethods ==
  (Done /\ call.op \in VerbOps)
    => /\ Len(wire) = 1
       /\ wire[1].method = MethodOf(call)
       /\ wire[1].headers = client.headers
       /\ wire[1].cookies = client.cookies
       /\ call.op = "get" => wire[1].body = None
       /\ (call.op # "get" /\ call.args[2] = None) => wire[1].body = None
       /\ (call.op # "get" /\ call.args[2] = EmptyDict) => wire[1].body = Str("{}")
       /\ (call.op # "get" /\ call.args[2] = Dict([name |-> Str("Foo")]))
            => wire[1].body = Str("{\"name\": \"Foo\"}")

C9_Witness ==
  /\ Done /\ call.op = "delete"
  /\ call.args[2] = Dict([name |-> Str("Foo")])
  /\ wire[1].method = "DELETE"
  /\ wire[1].body = Str("{\"name\": \"Foo\"}")

\* ------------------------------------------------------------------ C10
\* C10: the status test comes first: status >= 400 raises even with an empty
\* body; otherwise 204 or an empty body yields null; otherwise the decoded
\* body is returned.  find_tag_by_name returns null only after a request that
\* succeeded, and a failed request raises instead.
C10_StatusFirst ==
  Done
    => /\ Status >= 400
            => (result.kind = "raise" /\ result.value.kind = "Exception")
       /\ (Status < 400 /\ (Status = 204 \/ response.text = ""))
            => result = Return(None)
       /\ (/\ Status < 400 /\ Status # 204 /\ response.text # ""
           /\ IsJson(response.text) /\ call.op # "find_tag_by_name")
            => result = Return(response_json(response.text))
       /\ (call.op = "find_tag_by_name" /\ result = Return(None)) => Status < 400

C10_Witness ==
  /\ Done /\ call.op = "find_tag_by_name"
  /\ Status = 500 /\ response.text = ""
  /\ result = Raise(Exception(
       "REST API error 500: . Method: POST, Path: /tags/query"))

====
